---- MODULE Spec2Model ----
(***************************************************************************)
(* A model of gridsome-source-docs (src/index.js): the DocumentationSource *)
(* plugin ingests the files matched by a glob into a collection of file    *)
(* nodes, materialises reference stubs, builds one Sidebar node per        *)
(* version and, in development mode, follows add/change/unlink events.     *)
(*                                                                         *)
(* Every string of the program is a sequence of one-character strings, so  *)
(* that split, join, trim and slugify are computed, not assumed.           *)
(***************************************************************************)
EXTENDS Integers, Sequences, FiniteSets, TLC

(***************************************************************************)
(* Bounds of the model.                                                    *)
(***************************************************************************)
\* files present when the load starts
MaxBulk == 2
\* watch events delivered in one run
MaxEvents == 3
\* files present when a production build starts
MaxLoad == 3

(***************************************************************************)
(* Strings.                                                                *)
(***************************************************************************)
\* JavaScript's undefined, as a value no string of characters equals
Undefined == <<"<undefined>">>
\* a node without a weight field: node.weight is undefined
NoWeight == 0 - 1

Lowers == <<"a","b","c","d","e","f","g","h","i","j","k","l","m",
            "n","o","p","q","r","s","t","u","v","w","x","y","z">>
Uppers == <<"A","B","C","D","E","F","G","H","I","J","K","L","M",
            "N","O","P","Q","R","S","T","U","V","W","X","Y","Z">>
Digits == {"0","1","2","3","4","5","6","7","8","9"}

Range(s) == {s[i] : i \in DOMAIN s}

\* String.prototype.toLowerCase, one character
LowerOf == [i \in DOMAIN Uppers |-> Lowers[i]]
UpperSet == Range(Uppers)
ToLower(c) ==
  IF c \in UpperSet
    THEN LowerOf[CHOOSE i \in DOMAIN Uppers : Uppers[i] = c]
    ELSE c

AlnumSet == Range(Lowers) \cup Digits
IsAlnum(c) == c \in AlnumSet

\* lodash trimEnd(str, "/") and trim(str, "/") for a one-character set
RECURSIVE TrimEndChar(_, _)
TrimEndChar(s, c) ==
  IF s # <<>> /\ s[Len(s)] = c THEN TrimEndChar(SubSeq(s, 1, Len(s) - 1), c) ELSE s

RECURSIVE TrimStartChar(_, _)
TrimStartChar(s, c) ==
  IF s # <<>> /\ s[1] = c THEN TrimStartChar(Tail(s), c) ELSE s

TrimChar(s, c) == TrimStartChar(TrimEndChar(s, c), c)

\* Array.prototype.join
RECURSIVE Join(_, _)
Join(parts, sep) ==
  IF parts = <<>> THEN <<>>
  ELSE IF Len(parts) = 1 THEN parts[1]
  ELSE parts[1] \o sep \o Join(Tail(parts), sep)

\* String.prototype.split on a one-character separator: "" splits to [""]
RECURSIVE SplitFrom(_, _, _)
SplitFrom(s, c, cur) ==
  IF s = <<>> THEN <<cur>>
  ELSE IF s[1] = c THEN <<cur>> \o SplitFrom(Tail(s), c, <<>>)
  ELSE SplitFrom(Tail(s), c, Append(cur, s[1]))

Split(s, c) == SplitFrom(s, c, <<>>)

\* Array.prototype.filter(Boolean) on an array of strings
RECURSIVE FilterNonEmpty(_)
FilterNonEmpty(parts) ==
  IF parts = <<>> THEN <<>>
  ELSE IF parts[1] = <<>> THEN FilterNonEmpty(Tail(parts))
  ELSE <<parts[1]>> \o FilterNonEmpty(Tail(parts))

\* runs of the separator collapse to one
RECURSIVE Collapse(_, _)
Collapse(s, c) ==
  IF Len(s) < 2 THEN s
  ELSE IF s[1] = c /\ s[2] = c THEN Collapse(Tail(s), c)
  ELSE <<s[1]>> \o Collapse(Tail(s), c)

\* actions.slugify: lower-case, every run of characters that are neither
\* letters nor digits becomes one "-", no "-" at either end
slugify(s) ==
  LET mapped == [i \in DOMAIN s |->
                   IF IsAlnum(ToLower(s[i])) THEN ToLower(s[i]) ELSE "-"]
  IN TrimChar(Collapse(mapped, "-"), "-")

(***************************************************************************)
(* Paths (POSIX).  A file is given relative to the base directory, as the  *)
(* glob and the watcher give it: "v1/intro/a.md".                          *)
(***************************************************************************)
\* index of the last occurrence of c in s, 0 when there is none
LastIndexOf(s, c) ==
  IF \E i \in DOMAIN s : s[i] = c
    THEN CHOOSE i \in DOMAIN s : s[i] = c /\ \A j \in DOMAIN s : s[j] = c => j <= i
    ELSE 0

\* path.basename
Basename(file) == SubSeq(file, LastIndexOf(file, "/") + 1, Len(file))

\* path.dirname of a relative path: "." when the path has no directory
Dirname(file) ==
  IF LastIndexOf(file, "/") = 0 THEN <<".">>
  ELSE SubSeq(file, 1, LastIndexOf(file, "/") - 1)

\* path.parse(file): dir is "" when the path has no directory; ext starts
\* at the last "." of the base name (none when the name starts with it)
PathParse(file) ==
  LET base == Basename(file)
      dot  == LastIndexOf(base, ".")
      dir  == IF LastIndexOf(file, "/") = 0 THEN <<>>
              ELSE SubSeq(file, 1, LastIndexOf(file, "/") - 1)
  IN [dir  |-> dir,
      name |-> IF dot > 1 THEN SubSeq(base, 1, dot - 1) ELSE base,
      ext  |-> IF dot > 1 THEN SubSeq(base, dot, Len(base)) ELSE <<>>]

\* path.join(a, b) of an absolute directory and a relative path without
\* "." or ".." segments
PathJoin(a, b) == TrimEndChar(a, "/") \o <<"/">> \o b

\* path.resolve(file): a relative path is resolved against process.cwd()
PathResolve(cwd, file) ==
  IF file # <<>> /\ file[1] = "/" THEN file ELSE PathJoin(cwd, file)

RECURSIVE CommonPrefixLen(_, _)
CommonPrefixLen(a, b) ==
  IF a = <<>> \/ b = <<>> \/ a[1] # b[1] THEN 0
  ELSE 1 + CommonPrefixLen(Tail(a), Tail(b))

\* path.relative(from, to): both are resolved first, the common leading
\* segments are dropped, and every remaining segment of from is a ".."
PathRelative(cwd, from, to) ==
  LET f == FilterNonEmpty(Split(PathResolve(cwd, from), "/"))
      t == FilterNonEmpty(Split(PathResolve(cwd, to), "/"))
      n == CommonPrefixLen(f, t)
      ups == [i \in 1..(Len(f) - n) |-> <<".", ".">>]
  IN Join(ups \o SubSeq(t, n + 1, Len(t)), <<"/">>)

(***************************************************************************)
(* Names used by the configurations and the files of the model.            *)
(***************************************************************************)
T_FileNode == <<"F","i","l","e","N","o","d","e">>
T_Author   == <<"A","u","t","h","o","r">>
T_Tag      == <<"T","a","g">>
K_author   == <<"a","u","t","h","o","r">>
K_tags     == <<"t","a","g","s">>
V_jane     == <<"j","a","n","e">>
V_bob      == <<"b","o","b">>
S_index    == <<"i","n","d","e","x">>
S_v1       == <<"v","1">>
S_v2       == <<"v","2">>
S_in       == <<"i","n">>
S_ad       == <<"a","d">>
D_proj     == <<"/","p">>
D_docs     == <<"/","p","/","d">>

\* the value of a front-matter field: absent, one string, or an array
NoValue      == [tag |-> "none", vals |-> <<>>]
Scalar(v)    == [tag |-> "scalar", vals |-> <<v>>]
Array(vs)    == [tag |-> "array", vals |-> vs]

\* what a file holds: the fields its front matter declares.  The host's
\* transformer turns them into fields of the node addNode returns.
NoContent == [author |-> NoValue, tags |-> NoValue, weight |-> NoWeight]

(***************************************************************************)
(* The state.                                                              *)
(***************************************************************************)
VARIABLES
  cfg,          \* this.options, this.context, api.config, the process (cwd, isDev, engine)
  fsys,         \* the files matched by options.path under the base directory: file -> content
  pc,           \* the position of the loadSource callback
  unit,         \* createNodes: the per-file units of Promise.all, file -> state
  loadResult,   \* the promise createNodes returns: pending, resolved, rejected
  store,        \* the host's collections: typeName -> the nodes, in insertion order
  sidebarNodes, \* the nodes of the Sidebar collection
  refsCache,    \* this.refsCache: the cache keys set to true
  stubCalls,    \* how often addRefNode called addNode: <<typeName, fieldName, value>> -> count
  handlers,     \* watch handlers suspended at their file read
  lastEvent,    \* the watch event whose handler finished last, and whether it
                \* went through (add, change) or found its node (unlink)
  nEvents       \* watch events delivered

vars == <<cfg, fsys, pc, unit, loadResult, store, sidebarNodes, refsCache,
          stubCalls, handlers, lastEvent, nEvents>>

(***************************************************************************)
(* PathResolver: createDocInfo, createPath, createUid.                     *)
(***************************************************************************)
\* createDocInfo(file): undefined unless the directory has 1 or 2 parts
createDocInfo(file) ==
  LET dir   == Dirname(file)
      parts == Split(dir, "/")
  IN CASE Len(parts) = 1 ->
            [defined |-> TRUE, version |-> parts[1], section |-> Undefined]
       [] Len(parts) = 2 ->
            [defined |-> TRUE, version |-> parts[1], section |-> parts[2]]
       [] OTHER ->
            [defined |-> FALSE, version |-> Undefined, section |-> Undefined]

\* createPath leaving the first segment of the directory out of the path
createPathBelowFirst(dir, name) ==
  LET pathPrefix == IF cfg.pathPrefix = Undefined THEN <<>>
                    ELSE TrimChar(cfg.pathPrefix, "/")
      pathSuffix == IF cfg.trailingSlash THEN <<"/">> ELSE <<>>
      parts      == Tail(Split(dir, "/"))
      slugs      == [i \in DOMAIN parts |-> slugify(parts[i])]
      withName   == IF name \in cfg.index THEN slugs
                    ELSE Append(slugs, slugify(name))
      segments   == IF pathPrefix # <<>> THEN <<pathPrefix>> \o withName
                    ELSE withName
      res        == TrimEndChar(<<"/">> \o Join(FilterNonEmpty(segments), <<"/">>), "/")
  IN IF res \o pathSuffix = <<>> THEN <<"/">> ELSE res \o pathSuffix

\* createPath without this.options.index.includes(name): the base name is
\* always a segment
createPathKeepIndex(dir, name) ==
  LET pathPrefix == IF cfg.pathPrefix = Undefined THEN <<>>
                    ELSE TrimChar(cfg.pathPrefix, "/")
      pathSuffix == IF cfg.trailingSlash THEN <<"/">> ELSE <<>>
      parts      == Split(dir, "/")
      slugs      == [i \in DOMAIN parts |-> slugify(parts[i])]
      segments   == IF pathPrefix # <<>> THEN <<pathPrefix>> \o Append(slugs, slugify(name))
                    ELSE Append(slugs, slugify(name))
      res        == TrimEndChar(<<"/">> \o Join(FilterNonEmpty(segments), <<"/">>), "/")
  IN IF res \o pathSuffix = <<>> THEN <<"/">> ELSE res \o pathSuffix

\* createPath({dir, name}, actions)
createPath(dir, name) ==
  LET pathPrefix == IF cfg.pathPrefix = Undefined THEN <<>>
                    ELSE TrimChar(cfg.pathPrefix, "/")
      pathSuffix == IF cfg.trailingSlash THEN <<"/">> ELSE <<>>
      parts      == Split(dir, "/")
      slugs      == [i \in DOMAIN parts |-> slugify(parts[i])]
      withName   == IF name \in cfg.index THEN slugs
                    ELSE Append(slugs, slugify(name))
      segments   == IF pathPrefix # <<>> THEN <<pathPrefix>> \o withName
                    ELSE withName
      res        == TrimEndChar(<<"/">> \o Join(FilterNonEmpty(segments), <<"/">>), "/")
  IN IF res \o pathSuffix = <<>> THEN <<"/">> ELSE res \o pathSuffix

\* createUid(orgId): the md5 digest, a string no path or field value equals
createUid(orgId) == <<"md5:">> \o orgId

\* mime.lookup(file) || `application/x-${ext.replace(".", "")}`
mimeType(file, ext) ==
  CASE ext = <<".","m","d">>     -> <<"text/markdown">>
    [] ext = <<".","t","x","t">> -> <<"text/plain">>
    [] OTHER -> <<"application/x-">> \o (IF ext = <<>> THEN <<>> ELSE Tail(ext))

(***************************************************************************)
(* The host's collections (Gridsome's store), as the plugin uses them:     *)
(* addCollection, getCollection, addNode, updateNode, removeNode,          *)
(* findNodes.  A collection keeps its nodes in insertion order and its ids *)
(* unique: addNode with an id the collection holds throws, and so does     *)
(* updateNode with an id it does not hold.                                 *)
(***************************************************************************)
NoFileInfo == [extension |-> Undefined, directory |-> Undefined,
               path |-> Undefined, name |-> Undefined]
NoInternal == [mimeType |-> Undefined, content |-> NoContent, origin |-> Undefined]

\* the node the host makes of {id, title}: every other field is undefined
StubNode(value) ==
  [id |-> value, title |-> value, path |-> Undefined, fileInfo |-> NoFileInfo,
   version |-> Undefined, section |-> Undefined, internal |-> NoInternal,
   next |-> Undefined, prev |-> Undefined]

\* node[fieldName] of a node the host returned: the front-matter fields of
\* the content, as the host's transformer adds them
NodeField(node, fieldName) ==
  CASE fieldName = K_author -> node.internal.content.author
    [] fieldName = K_tags   -> node.internal.content.tags
    [] OTHER                -> NoValue

Weight(node) == node.internal.content.weight

HasId(nodes, id) == \E i \in DOMAIN nodes : nodes[i].id = id

addCollection(st, typeName) ==
  IF typeName \in DOMAIN st THEN st ELSE st @@ (typeName :> <<>>)

\* a collection that takes a node whatever its id
addNodeAnyId(st, typeName, node) ==
  [threw |-> FALSE, store |-> [st EXCEPT ![typeName] = Append(@, node)]]

\* collection.addNode(options): [threw, store]
addNode(st, typeName, node) ==
  IF HasId(st[typeName], node.id)
    THEN [threw |-> TRUE, store |-> st]
    ELSE [threw |-> FALSE, store |-> [st EXCEPT ![typeName] = Append(@, node)]]

\* collection.updateNode(options): the node of that id is replaced whole
updateNode(st, typeName, node) ==
  IF ~HasId(st[typeName], node.id)
    THEN [threw |-> TRUE, store |-> st]
    ELSE [threw |-> FALSE,
          store |-> [st EXCEPT ![typeName] =
                       [i \in DOMAIN @ |-> IF @[i].id = node.id THEN node ELSE @[i]]]]

RemoveAt(nodes, i) ==
  SubSeq(nodes, 1, i - 1) \o SubSeq(nodes, i + 1, Len(nodes))

\* collection.removeNode({"internal.origin": absPath}): the first node the
\* query finds is removed; nothing happens when it finds none
removeNode(st, typeName, absPath) ==
  LET nodes == st[typeName]
      hits  == {i \in DOMAIN nodes : nodes[i].internal.origin = absPath}
  IN IF hits = {} THEN st
     ELSE [st EXCEPT ![typeName] =
             RemoveAt(nodes, CHOOSE i \in hits : \A j \in hits : i <= j)]

\* collection.findNodes({section: {$eq: title}, version: {$eq: id}}): the
\* positions of the matching nodes, in insertion order
RECURSIVE findNodesFrom(_, _, _, _)
findNodesFrom(nodes, i, title, id) ==
  IF i > Len(nodes) THEN <<>>
  ELSE IF nodes[i].section = title /\ nodes[i].version = id
    THEN <<i>> \o findNodesFrom(nodes, i + 1, title, id)
    ELSE findNodesFrom(nodes, i + 1, title, id)

findNodes(nodes, title, id) == findNodesFrom(nodes, 1, title, id)

(***************************************************************************)
(* ReferenceResolver: normalizeRefs, addRefNode, createNodeRefs.           *)
(***************************************************************************)
\* a declared reference: a bare type name, or {typeName?, create?}
RefString(typeName)       == [str |-> TRUE, typeName |-> typeName, create |-> FALSE]
RefObject(typeName, flag) == [str |-> FALSE, typeName |-> typeName, create |-> flag]

\* normalizeRefs(refs), one entry: {typeName, create}
normalizeRef(ref) ==
  LET r == IF ref.str THEN [typeName |-> ref.typeName, create |-> FALSE]
           ELSE [typeName |-> ref.typeName, create |-> ref.create]
  IN [typeName |-> IF r.typeName = Undefined \/ r.typeName = <<>>
                     THEN cfg.typeName ELSE r.typeName,
      create   |-> r.create]

\* this.refs: the declared fields in declaration order, normalized
normalizeRefs(refs) ==
  [i \in DOMAIN refs |->
     [fieldName |-> refs[i].fieldName] @@ normalizeRef(refs[i].ref)]

BagAdd(b, e) == IF e \in DOMAIN b THEN [b EXCEPT ![e] = @ + 1] ELSE b @@ (e :> 1)

\* addRefNode without the test of this.refsCache: every value it is given
\* goes to addNode
addRefNodeUncached(rs, typeName, fieldName, value) ==
  LET cacheKey == typeName \o <<"-">> \o fieldName \o <<"-">> \o value
  IN IF value # <<>>
       THEN LET r == addNode(rs.store, typeName, StubNode(value))
            IN [store |-> r.store,
                cache |-> rs.cache \cup {cacheKey},
                calls |-> BagAdd(rs.calls, <<typeName, fieldName, value>>),
                threw |-> FALSE]
       ELSE rs

\* addRefNode(typeName, fieldName, value, actions) on
\* rs = [store, cache, calls, threw]
addRefNode(rs, typeName, fieldName, value) ==
  LET cacheKey == typeName \o <<"-">> \o fieldName \o <<"-">> \o value
  IN IF cacheKey \notin rs.cache /\ value # <<>>
       THEN LET r == addNode(rs.store, typeName, StubNode(value))
            IN [store |-> r.store,
                cache |-> rs.cache \cup {cacheKey},
                calls |-> BagAdd(rs.calls, <<typeName, fieldName, value>>),
                threw |-> r.threw]
       ELSE rs

\* value.forEach((value) => this.addRefNode(...)): an exception ends it
RECURSIVE addRefNodes(_, _, _, _)
addRefNodes(rs, typeName, fieldName, vals) ==
  IF vals = <<>> \/ rs.threw THEN rs
  ELSE addRefNodes(addRefNode(rs, typeName, fieldName, vals[1]),
                   typeName, fieldName, Tail(vals))

\* node[fieldName] is truthy: an array always is, a string unless empty
Truthy(fv) == fv.tag = "array" \/ (fv.tag = "scalar" /\ fv.vals[1] # <<>>)

\* createNodeRefs(node, actions): the loop over this.refs
RECURSIVE createNodeRefsFrom(_, _, _)
createNodeRefsFrom(rs, node, refs) ==
  IF refs = <<>> \/ rs.threw THEN rs
  ELSE LET ref == refs[1]
           fv  == NodeField(node, ref.fieldName)
           nxt == IF Truthy(fv) /\ ref.create
                    THEN addRefNodes(rs, ref.typeName, ref.fieldName, fv.vals)
                    ELSE rs
       IN createNodeRefsFrom(nxt, node, Tail(refs))

createNodeRefs(rs, node) == createNodeRefsFrom(rs, node, normalizeRefs(cfg.refs))

(***************************************************************************)
(* NodeIngestor: createNodeOptions and the per-file unit.                  *)
(***************************************************************************)
\* the origin createNodeOptions stores: path.join(this.context, file)
originOf(file) == PathJoin(cfg.context, file)

\* createNodeOptions(file, actions), once the read has given the content:
\* docInfo.version throws a TypeError when createDocInfo returned undefined
createNodeOptions(file, content) ==
  LET relPath == PathRelative(cfg.cwd, cfg.context, file)
      parsed  == PathParse(file)
      docInfo == createDocInfo(file)
  IN [threw |-> ~docInfo.defined,
      node  |-> [id       |-> createUid(relPath),
                 title    |-> Undefined,
                 path     |-> createPath(parsed.dir, parsed.name),
                 fileInfo |-> [extension |-> parsed.ext, directory |-> parsed.dir,
                               path |-> file, name |-> parsed.name],
                 version  |-> docInfo.version,
                 section  |-> docInfo.section,
                 internal |-> [mimeType |-> mimeType(file, parsed.ext),
                               content  |-> content,
                               origin   |-> originOf(file)],
                 next     |-> Undefined,
                 prev     |-> Undefined]]

\* what follows the read in createNodes' unit and in the add handler:
\* createNodeOptions, collection.addNode, createNodeRefs
\* result: [store, cache, calls, threw]
ingestFile(file, content, update) ==
  LET o  == createNodeOptions(file, content)
      rs == [store |-> store, cache |-> refsCache, calls |-> stubCalls, threw |-> FALSE]
  IN IF o.threw THEN [rs EXCEPT !.threw = TRUE]
     ELSE LET a == IF update THEN updateNode(store, cfg.typeName, o.node)
                   ELSE addNode(store, cfg.typeName, o.node)
          IN IF a.threw THEN [rs EXCEPT !.threw = TRUE]
             ELSE createNodeRefs([rs EXCEPT !.store = a.store], o.node)

(***************************************************************************)
(* SidebarBuilder: sortSection, createSidebarSection, createSidebar.       *)
(*                                                                         *)
(* nodes.sort(comparefn) with a comparefn that never returns 0 is left to  *)
(* the engine by the language: the model computes it as V8 does, by the    *)
(* insertion sort of Node 10 and earlier ("legacy") and by the TimSort of  *)
(* Node 11 and later, which for fewer than 64 elements is one run          *)
(* detection followed by a binary insertion sort ("timsort").              *)
(***************************************************************************)
\* (a, b) => (a.weight > b.weight ? 1 : -1); a comparison with undefined
\* is false
comparefn(a, b) ==
  IF Weight(a) # NoWeight /\ Weight(b) # NoWeight /\ Weight(a) > Weight(b)
    THEN 1 ELSE 0 - 1

Reverse(s) == [i \in DOMAIN s |-> s[Len(s) + 1 - i]]

InsertAt(s, i, e) == SubSeq(s, 1, i - 1) \o <<e>> \o SubSeq(s, i, Len(s))

\* V8 InsertionSort: the element moves left past every element that
\* compares greater; the result is its 0-based position
RECURSIVE LegacyPos(_, _, _, _)
LegacyPos(ns, arr, element, j) ==
  IF j < 0 THEN 0
  ELSE IF comparefn(ns[arr[j + 1]], ns[element]) > 0
    THEN LegacyPos(ns, arr, element, j - 1)
    ELSE j + 1

RECURSIVE LegacySortFrom(_, _, _)
LegacySortFrom(ns, arr, i) ==
  IF i >= Len(arr) THEN arr
  ELSE LET element == arr[i + 1]
           pos     == LegacyPos(ns, arr, element, i - 1)
           rest    == RemoveAt(arr, i + 1)
       IN LegacySortFrom(ns, InsertAt(rest, pos + 1, element), i + 1)

\* V8 CountAndMakeRun: the length of the leading run
RECURSIVE RunLength(_, _, _, _)
RunLength(ns, arr, isDescending, idx) ==
  IF idx >= Len(arr) THEN idx
  ELSE LET order == comparefn(ns[arr[idx + 1]], ns[arr[idx]])
       IN IF (isDescending /\ order >= 0) \/ (~isDescending /\ order < 0)
            THEN idx
            ELSE RunLength(ns, arr, isDescending, idx + 1)

\* V8 BinaryInsertionSort: the pivot's 0-based position in [left, right)
RECURSIVE BinaryPos(_, _, _, _, _)
BinaryPos(ns, arr, pivot, left, right) ==
  IF left >= right THEN left
  ELSE LET mid   == left + ((right - left) \div 2)
           order == comparefn(ns[pivot], ns[arr[mid + 1]])
       IN IF order < 0 THEN BinaryPos(ns, arr, pivot, left, mid)
          ELSE BinaryPos(ns, arr, pivot, mid + 1, right)

RECURSIVE BinaryInsertionFrom(_, _, _)
BinaryInsertionFrom(ns, arr, start) ==
  IF start >= Len(arr) THEN arr
  ELSE LET pivot == arr[start + 1]
           pos   == BinaryPos(ns, arr, pivot, 0, start)
           rest  == RemoveAt(arr, start + 1)
       IN BinaryInsertionFrom(ns, InsertAt(rest, pos + 1, pivot), start + 1)

TimSort(ns, arr) ==
  LET isDescending == comparefn(ns[arr[2]], ns[arr[1]]) < 0
      runLength    == RunLength(ns, arr, isDescending, 2)
      made         == IF isDescending
                        THEN Reverse(SubSeq(arr, 1, runLength))
                             \o SubSeq(arr, runLength + 1, Len(arr))
                        ELSE arr
  IN BinaryInsertionFrom(ns, made, runLength)

\* nodes.sort(...): arr holds the positions, in the collection ns, of the
\* nodes findNodes returned
sortNodes(ns, arr) ==
  IF Len(arr) < 2 THEN arr
  ELSE IF cfg.engine = "legacy" THEN LegacySortFrom(ns, arr, 1)
  ELSE TimSort(ns, arr)

IndexIn(arr, k) == CHOOSE i \in DOMAIN arr : arr[i] = k

\* the loop of sortSection: next and prev are written into the nodes of
\* the collection, which findNodes returned by reference
linkSection(ns, sorted) ==
  [k \in DOMAIN ns |->
     IF k \in Range(sorted)
       THEN LET i == IndexIn(sorted, k)
            IN [ns[k] EXCEPT
                  !.next = IF i + 1 <= Len(sorted) THEN ns[sorted[i + 1]].path ELSE @,
                  !.prev = IF i > 1 THEN ns[sorted[i - 1]].path ELSE @]
       ELSE ns[k]]

\* sortSection(nodes): [nodes, sorted]
sortSection(ns, arr) ==
  LET sorted == sortNodes(ns, arr)
  IN [nodes |-> linkSection(ns, sorted), sorted |-> sorted]

\* createSidebarSection without the test for a section of that title:
\* every node gets a section of its own
createSidebarSectionAlwaysNew(sidebar, node) ==
  LET version == node.version
      sb      == IF \E i \in DOMAIN sidebar : sidebar[i].version = version
                   THEN sidebar
                   ELSE Append(sidebar, [version |-> version, sections |-> <<>>])
      v       == CHOOSE i \in DOMAIN sb : sb[i].version = version
  IN [sb EXCEPT ![v].sections =
        Append(@, [title |-> node.section, items |-> <<node.path>>])]

\* createSidebarSection(sidebar, node); sidebar is the sequence of
\* [version, sections] in the order the keys were created
createSidebarSection(sidebar, node) ==
  LET version == node.version
      title   == node.section
      sb      == IF \E i \in DOMAIN sidebar : sidebar[i].version = version
                   THEN sidebar
                   ELSE Append(sidebar, [version |-> version, sections |-> <<>>])
      v       == CHOOSE i \in DOMAIN sb : sb[i].version = version
      secs    == sb[v].sections
  IN IF \E j \in DOMAIN secs : secs[j].title = title
       THEN LET j == CHOOSE x \in DOMAIN secs :
                       secs[x].title = title /\ \A y \in DOMAIN secs :
                                                   secs[y].title = title => x <= y
            IN [sb EXCEPT ![v].sections[j].items = Append(@, node.path)]
       ELSE [sb EXCEPT ![v].sections =
               Append(@, [title |-> title, items |-> <<node.path>>])]

\* nodes.forEach((node) => this.createSidebarSection(sidebar, node))
RECURSIVE addSectionNodes(_, _, _)
addSectionNodes(sidebar, ns, sorted) ==
  IF sorted = <<>> THEN sidebar
  ELSE addSectionNodes(createSidebarSection(sidebar, ns[sorted[1]]), ns, Tail(sorted))

\* order.forEach((title) => ...) for one version id, on sb = [nodes, sidebar]
RECURSIVE sidebarTitles(_, _, _)
sidebarTitles(sb, id, order) ==
  IF order = <<>> THEN sb
  ELSE LET found == findNodes(sb.nodes, order[1], id)
           s     == sortSection(sb.nodes, found)
       IN sidebarTitles([nodes   |-> s.nodes,
                         sidebar |-> addSectionNodes(sb.sidebar, s.nodes, s.sorted)],
                        id, Tail(order))

\* Object.keys(this.options.sidebarOrder).forEach((id) => ...)
RECURSIVE sidebarVersions(_, _)
sidebarVersions(sb, sidebarOrder) ==
  IF sidebarOrder = <<>> THEN sb
  ELSE sidebarVersions(sidebarTitles(sb, sidebarOrder[1].id, sidebarOrder[1].order),
                       Tail(sidebarOrder))

\* createSidebar(actions): [nodes, sidebar], the file collection with its
\* links and the Sidebar nodes added, {id: key, sections}
createSidebar(ns) ==
  LET sb == sidebarVersions([nodes |-> ns, sidebar |-> <<>>], cfg.sidebarOrder)
  IN [nodes   |-> sb.nodes,
      sidebar |-> [i \in DOMAIN sb.sidebar |->
                     [id |-> sb.sidebar[i].version,
                      sections |-> sb.sidebar[i].sections]]]

(***************************************************************************)
(* The files, contents and configurations of the model.                    *)
(***************************************************************************)
F_a    == <<"v","1","/","i","n","/","a",".","m","d">>
F_b    == <<"v","1","/","i","n","/","b",".","m","d">>
F_atxt == <<"v","1","/","i","n","/","a",".","t","x","t">>
F_c    == <<"v","1","/","a","d","/","c",".","m","d">>
F_root == <<"r","e","a","d","m","e",".","m","d">>
F_deep == <<"v","1","/","i","n","/","x","/","c",".","m","d">>

\* the files the glob can match in a development run, and in a build
Files     == {F_a, F_b, F_deep}
LoadFiles == {F_a, F_b, F_atxt, F_c, F_root}

C_none  == NoContent
C_jane  == [author |-> Scalar(V_jane), tags |-> NoValue, weight |-> 1]
C_both  == [author |-> Scalar(V_jane), tags |-> Array(<<V_jane, V_bob>>), weight |-> 2]
C_w(n)  == [author |-> NoValue, tags |-> NoValue, weight |-> n]

Contents     == {C_jane, C_both}
LoadContents == {C_none, C_w(1), C_w(2)}

Order(id, titles) == [id |-> id, order |-> titles]
Ref(fieldName, ref) == [fieldName |-> fieldName, ref |-> ref]

BaseCfg ==
  [context |-> D_docs, cwd |-> D_proj, typeName |-> T_FileNode,
   refs |-> <<>>, sidebarOrder |-> <<>>, index |-> {S_index},
   pathPrefix |-> Undefined, trailingSlash |-> FALSE,
   isDev |-> TRUE, engine |-> "timsort"]

\* refs: {author: {typeName: "Author", create: true}, tags: "Tag"}
CfgAuthor ==
  [BaseCfg EXCEPT
     !.refs = <<Ref(K_author, RefObject(T_Author, TRUE)),
                Ref(K_tags, RefString(T_Tag))>>,
     !.sidebarOrder = <<Order(S_v1, <<S_in>>)>>]

\* refs: {author: {create: true}, tags: {typeName: "Tag", create: true}},
\* no baseDir, a path prefix and trailing slashes
CfgOwnType ==
  [BaseCfg EXCEPT
     !.context = D_proj,
     !.refs = <<Ref(K_author, RefObject(Undefined, TRUE)),
                Ref(K_tags, RefObject(T_Tag, TRUE))>>,
     !.sidebarOrder = <<Order(S_v1, <<S_in>>), Order(S_v2, <<S_in>>)>>,
     !.pathPrefix = <<"/","d","o","c","s","/">>,
     !.trailingSlash = TRUE,
     !.engine = "legacy"]

\* refs: {author: {typeName: "Tag", create: true}, tags: {typeName: "Tag", create: true}}
CfgSameType ==
  [BaseCfg EXCEPT
     !.refs = <<Ref(K_author, RefObject(T_Tag, TRUE)),
                Ref(K_tags, RefObject(T_Tag, TRUE))>>,
     !.sidebarOrder = <<Order(S_v1, <<S_in, S_in>>)>>]

Configs == {CfgAuthor, CfgOwnType, CfgSameType}

SidebarOrders ==
  { <<Order(S_v1, <<S_in, S_ad>>)>>,
    <<Order(S_v1, <<S_in, S_in>>)>>,
    <<Order(S_v2, <<S_in>>), Order(S_v1, <<S_ad, S_v2, S_in>>)>> }

LoadConfigs ==
  { [BaseCfg EXCEPT !.isDev = FALSE, !.sidebarOrder = so, !.engine = e] :
      so \in SidebarOrders, e \in {"legacy", "timsort"} }

(***************************************************************************)
(* The load: api.loadSource(async (actions) => {...}).                     *)
(***************************************************************************)
NoEvent == [event |-> "none", file |-> <<>>, hit |-> FALSE]

InitWith(configs, files, contents, maxFiles) ==
  /\ cfg \in configs
  /\ \E S \in SUBSET files :
       /\ Cardinality(S) <= maxFiles
       /\ fsys \in [S -> contents]
  /\ pc = "start"
  /\ unit = <<>>
  /\ loadResult = "pending"
  /\ store = <<>>
  /\ sidebarNodes = <<>>
  /\ refsCache = {}
  /\ stubCalls = <<>>
  /\ handlers = {}
  /\ lastEvent = NoEvent
  /\ nEvents = 0

Init == InitWith(Configs, Files, Contents, MaxBulk)

\* createCollections(actions): the file collection, and one collection per
\* reference that creates its targets
RECURSIVE createCollectionsFrom(_, _)
createCollectionsFrom(st, refs) ==
  IF refs = <<>> THEN st
  ELSE createCollectionsFrom(
         IF refs[1].create THEN addCollection(st, refs[1].typeName) ELSE st,
         Tail(refs))

createCollections(st) ==
  createCollectionsFrom(addCollection(st, cfg.typeName), normalizeRefs(cfg.refs))

\* createCollections, then createNodes up to Promise.all: the glob has
\* given the files, and every unit has started and waits for its read
LoadStart ==
  /\ pc = "start"
  /\ pc' = "ingesting"
  /\ store' = createCollections(store)
  /\ unit' = [f \in DOMAIN fsys |-> "reading"]
  /\ loadResult' = IF DOMAIN fsys = {} THEN "resolved" ELSE "pending"
  /\ UNCHANGED <<cfg, fsys, sidebarNodes, refsCache, stubCalls, handlers,
                 lastEvent, nEvents>>

\* Promise.all: rejected by the first unit that fails, resolved when the
\* last unit is done; settled once
settle(result, units) ==
  IF result # "pending" THEN result
  ELSE IF \E f \in DOMAIN units : units[f] \in {"readfail", "threw"} THEN "rejected"
  ELSE IF \A f \in DOMAIN units : units[f] = "done" THEN "resolved"
  ELSE "pending"

\* one unit of createNodes resumes from its read, which succeeded (ok) or
\* failed: createNodeOptions, collection.addNode, createNodeRefs
UnitRead(f, ok) ==
  /\ f \in DOMAIN unit
  /\ unit[f] = "reading"
  /\ LET r == ingestFile(f, fsys[f], FALSE)
         u == [unit EXCEPT ![f] = IF ~ok THEN "readfail"
                                  ELSE IF r.threw THEN "threw" ELSE "done"]
     IN /\ unit' = u
        /\ loadResult' = settle(loadResult, u)
        /\ IF ok
             THEN /\ store' = r.store
                  /\ refsCache' = r.cache
                  /\ stubCalls' = r.calls
             ELSE UNCHANGED <<store, refsCache, stubCalls>>
  /\ UNCHANGED <<cfg, fsys, pc, sidebarNodes, handlers, lastEvent, nEvents>>

\* await this.createNodes(actions) returned: createSidebar, and in
\* development watchFiles
LoadContinue ==
  /\ pc = "ingesting"
  /\ loadResult = "resolved"
  /\ LET sb == createSidebar(store[cfg.typeName])
     IN /\ store' = [store EXCEPT ![cfg.typeName] = sb.nodes]
        /\ sidebarNodes' = sb.sidebar
  /\ pc' = IF cfg.isDev THEN "watching" ELSE "loaded"
  /\ UNCHANGED <<cfg, fsys, unit, loadResult, refsCache, stubCalls, handlers,
                 lastEvent, nEvents>>

\* await this.createNodes(actions) threw: the callback ends there
LoadAbort ==
  /\ pc = "ingesting"
  /\ loadResult = "rejected"
  /\ pc' = "aborted"
  /\ UNCHANGED <<cfg, fsys, unit, loadResult, store, sidebarNodes, refsCache,
                 stubCalls, handlers, lastEvent, nEvents>>

(***************************************************************************)
(* WatchSync: the handlers of watchFiles.  The watcher delivers the events *)
(* of one path one after the other: no event for a path whose handler is   *)
(* still suspended at its read.                                            *)
(***************************************************************************)
InFlight(f) == \E h \in handlers : h.file = f

Suspend(event, f) ==
  /\ handlers' = handlers \cup {[event |-> event, file |-> f]}
  /\ nEvents' = nEvents + 1

\* a file appears: watcher.on("add") runs up to its read
WatchAdd(f, c) ==
  /\ pc = "watching"
  /\ nEvents < MaxEvents
  /\ f \notin DOMAIN fsys
  /\ ~InFlight(f)
  /\ fsys' = fsys @@ (f :> c)
  /\ Suspend("add", f)
  /\ UNCHANGED <<cfg, pc, unit, loadResult, store, sidebarNodes, refsCache,
                 stubCalls, lastEvent>>

\* a file is written: watcher.on("change") runs up to its read
WatchChange(f, c) ==
  /\ pc = "watching"
  /\ nEvents < MaxEvents
  /\ f \in DOMAIN fsys
  /\ ~InFlight(f)
  /\ fsys' = [fsys EXCEPT ![f] = c]
  /\ Suspend("change", f)
  /\ UNCHANGED <<cfg, pc, unit, loadResult, store, sidebarNodes, refsCache,
                 stubCalls, lastEvent>>

\* the read of an add or change handler returns: createNodeOptions,
\* collection.addNode or collection.updateNode, createNodeRefs
WatchResume(h) ==
  /\ h \in handlers
  /\ h.file \in DOMAIN fsys
  /\ LET r == ingestFile(h.file, fsys[h.file], h.event = "change")
     IN /\ store' = r.store
        /\ refsCache' = r.cache
        /\ stubCalls' = r.calls
        /\ lastEvent' = [event |-> h.event, file |-> h.file, hit |-> ~r.threw]
  /\ handlers' = handlers \ {h}
  /\ UNCHANGED <<cfg, fsys, pc, unit, loadResult, sidebarNodes, nEvents>>

\* the unlink handler joining the file to the working directory instead
\* of this.context
unlinkAbsPathFromCwd(file) == PathJoin(cfg.cwd, file)

\* the absolute path the unlink handler looks for:
\* path.join(this.context, slash(file))
unlinkAbsPath(file) == PathJoin(cfg.context, file)

\* a file disappears: watcher.on("unlink"), which does not suspend
WatchUnlink(f) ==
  /\ pc = "watching"
  /\ nEvents < MaxEvents
  /\ f \in DOMAIN fsys
  /\ ~InFlight(f)
  /\ fsys' = [g \in DOMAIN fsys \ {f} |-> fsys[g]]
  /\ store' = removeNode(store, cfg.typeName, unlinkAbsPath(f))
  /\ lastEvent' = [event |-> "unlink", file |-> f,
                   hit |-> store' # store]
  /\ nEvents' = nEvents + 1
  /\ UNCHANGED <<cfg, pc, unit, loadResult, sidebarNodes, refsCache, stubCalls,
                 handlers>>

NextLoad ==
  \/ LoadStart
  \/ \E f \in DOMAIN unit, ok \in BOOLEAN : UnitRead(f, ok)
  \/ LoadContinue
  \/ LoadAbort

NextWatch ==
  \/ \E f \in Files, c \in Contents : WatchAdd(f, c)
  \/ \E f \in Files, c \in Contents : WatchChange(f, c)
  \/ \E h \in handlers : WatchResume(h)
  \/ \E f \in Files : WatchUnlink(f)

Next == NextLoad \/ NextWatch

\* a development run: the load, then the watcher
Spec == Init /\ [][Next]_vars

\* a production build whose reads all succeed: the load alone
InitBuild == InitWith(LoadConfigs, LoadFiles, LoadContents, MaxLoad)

NextBuild ==
  \/ LoadStart
  \/ \E f \in DOMAIN unit : UnitRead(f, TRUE)
  \/ LoadContinue

SpecBuild == InitBuild /\ [][NextBuild]_vars

(***************************************************************************)
(* Vocabulary of the properties.                                           *)
(***************************************************************************)
\* the collection of file nodes: this.collection
Collection == IF cfg.typeName \in DOMAIN store THEN store[cfg.typeName] ELSE <<>>

\* the positions of the file nodes ingested from file f
NodesOf(f) == {i \in DOMAIN Collection : Collection[i].internal.origin = originOf(f)}

\* a file node, as opposed to a stub {id, title}
IsFileNode(n) == n.internal.origin # Undefined

\* the number of directories between the base directory and the file
Depth(f) == Cardinality({i \in DOMAIN f : f[i] = "/"})

\* the stubs with this id in the collection of this type
StubsWithId(typeName, value) ==
  IF typeName \in DOMAIN store
    THEN {i \in DOMAIN store[typeName] :
            ~IsFileNode(store[typeName][i]) /\ store[typeName][i].id = value}
    ELSE {}

\* the declared reference of a field name, as configured
DeclaredRefs(fieldName) == {i \in DOMAIN cfg.refs : cfg.refs[i].fieldName = fieldName}

(***************************************************************************)
(* C1.  In watch mode, with the events of one path delivered one after the *)
(* other and every read succeeding, once all handlers have finished the    *)
(* collection holds exactly one file node per existing matched file and    *)
(* none for a file that has been unlinked.                                 *)
(***************************************************************************)
C1_OneNodePerExistingFile ==
  (pc = "watching" /\ handlers = {}) =>
    \A f \in Files :
      Cardinality(NodesOf(f)) = IF f \in DOMAIN fsys THEN 1 ELSE 0

(***************************************************************************)
(* C2.  An unlink event for file F removes exactly the file node whose     *)
(* internal.origin is the origin createNodeOptions stored for F, and       *)
(* leaves every other node of every collection, the Sidebar nodes and the  *)
(* reference cache as they were; when no node has that origin, nothing     *)
(* changes at all.                                                         *)
(***************************************************************************)
C2_UnlinkRemovesExactlyItsNode ==
  [][\A f \in Files :
       (f \in DOMAIN fsys /\ f \notin DOMAIN fsys') =>
         /\ Cardinality(NodesOf(f)) <= 1
         /\ \A i \in NodesOf(f) :
              store' = [store EXCEPT ![cfg.typeName] = RemoveAt(@, i)]
         /\ NodesOf(f) = {} => store' = store
         /\ sidebarNodes' = sidebarNodes
         /\ refsCache' = refsCache
         /\ stubCalls' = stubCalls]_vars

\* an unlink has removed the node of its file, and another file node, a
\* stub and a Sidebar node were there to be left alone
C2_Witness ==
  /\ lastEvent.event = "unlink"
  /\ lastEvent.hit
  /\ NodesOf(lastEvent.file) = {}
  /\ \E i \in DOMAIN Collection : IsFileNode(Collection[i])
  /\ StubsWithId(T_Author, V_jane) # {}
  /\ sidebarNodes # <<>>
  /\ refsCache # {}

SectionNodes(id, title) ==
  {i \in DOMAIN Collection :
     Collection[i].version = id /\ Collection[i].section = title}

\* the orders in which a set of positions can be listed
Listings(N) ==
  {p \in [1..Cardinality(N) -> N] : \A i, j \in DOMAIN p : i # j => p[i] # p[j]}

\* the order list declared for a version key
OrderOf(id) ==
  cfg.sidebarOrder[CHOOSE i \in DOMAIN cfg.sidebarOrder : cfg.sidebarOrder[i].id = id].order

VersionKeys == {cfg.sidebarOrder[i].id : i \in DOMAIN cfg.sidebarOrder}

Occurrences(title, order) == Cardinality({i \in DOMAIN order : order[i] = title})

\* the titles of an order list that match a node, each at its first occurrence
RECURSIVE MatchedTitles(_, _, _)
MatchedTitles(id, order, seen) ==
  IF order = <<>> THEN <<>>
  ELSE IF order[1] \in seen \/ SectionNodes(id, order[1]) = {}
    THEN MatchedTitles(id, Tail(order), seen)
    ELSE <<order[1]>> \o MatchedTitles(id, Tail(order), seen \cup {order[1]})

SidebarsOf(id) == {i \in DOMAIN sidebarNodes : sidebarNodes[i].id = id}

(***************************************************************************)
(* C4.  After createSidebar, in every section of every version's sidebar   *)
(* the items list names the section's nodes in ascending weight order, and *)
(* prev/next chain the nodes in that order: next is the path of the item   *)
(* after, prev the path of the item before, the first item has no prev and *)
(* the last no next; for every sidebarOrder, also one that repeats a       *)
(* title.                                                                  *)
(***************************************************************************)
C4_SectionSortedAndChained ==
  pc = "loaded" =>
    \A s \in DOMAIN sidebarNodes :
      \A t \in DOMAIN sidebarNodes[s].sections :
        LET sec == sidebarNodes[s].sections[t]
            N   == SectionNodes(sidebarNodes[s].id, sec.title)
        IN \E p \in Listings(N) :
             /\ sec.items = [k \in DOMAIN p |-> Collection[p[k]].path]
             /\ \A i, j \in DOMAIN p :
                  (/\ i < j
                   /\ Weight(Collection[p[i]]) # NoWeight
                   /\ Weight(Collection[p[j]]) # NoWeight)
                  => Weight(Collection[p[i]]) <= Weight(Collection[p[j]])
             /\ \A k \in DOMAIN p :
                  /\ Collection[p[k]].next =
                       IF k < Len(p) THEN Collection[p[k + 1]].path ELSE Undefined
                  /\ Collection[p[k]].prev =
                       IF k > 1 THEN Collection[p[k - 1]].path ELSE Undefined

(***************************************************************************)
(* C5, as amended.  createSidebar adds exactly one Sidebar node, with id   *)
(* equal to the version, for every version key of sidebarOrder of which a  *)
(* listed title matches a node, and none for any other version key; its    *)
(* sections are the listed titles that match a node, in declared order,    *)
(* one section per title, and a title listed n times holds its nodes'      *)
(* paths n times.                                                          *)
(***************************************************************************)
C5_SidebarPerMatchedVersion ==
  pc = "loaded" =>
    /\ \A s \in DOMAIN sidebarNodes : sidebarNodes[s].id \in VersionKeys
    /\ \A id \in VersionKeys :
         LET titles == MatchedTitles(id, OrderOf(id), {})
         IN /\ Cardinality(SidebarsOf(id)) = IF titles = <<>> THEN 0 ELSE 1
            /\ \A s \in SidebarsOf(id) :
                 LET secs == sidebarNodes[s].sections
                 IN /\ [t \in DOMAIN secs |-> secs[t].title] = titles
                    /\ \A t \in DOMAIN secs :
                         Len(secs[t].items) =
                           Occurrences(secs[t].title, OrderOf(id))
                             * Cardinality(SectionNodes(id, secs[t].title))

\* a build has made a Sidebar node of two sections for a version that
\* lists three titles, beside a version key that matches no node
C5_Witness ==
  /\ pc = "loaded"
  /\ Len(cfg.sidebarOrder) = 2
  /\ Len(sidebarNodes) = 1
  /\ Len(sidebarNodes[1].sections) = 2
  /\ Len(OrderOf(sidebarNodes[1].id)) = 3

(***************************************************************************)
(* C5, as claimed.  createSidebar adds exactly one Sidebar node for every  *)
(* version key of sidebarOrder, whatever nodes the graph contains, also    *)
(* when a version or a title matches no node.                              *)
(***************************************************************************)
C5_SidebarPerVersionKey ==
  pc = "loaded" =>
    \A id \in VersionKeys :
      /\ Cardinality(SidebarsOf(id)) = 1
      /\ \A s \in SidebarsOf(id) :
           LET secs == sidebarNodes[s].sections
           IN \A t, u \in DOMAIN secs : t # u => secs[t].title # secs[u].title

(***************************************************************************)
(* C6.  No two distinct file nodes of the collection have the same path.   *)
(***************************************************************************)
C6_PathsUnique ==
  \A i, j \in DOMAIN Collection :
    (i # j /\ IsFileNode(Collection[i]) /\ IsFileNode(Collection[j]))
    => Collection[i].path # Collection[j].path

\* every value of every create:true reference field of the content has its stub
StubsRegistered(content) ==
  LET refs == normalizeRefs(cfg.refs)
      node == [internal |-> [content |-> content]]
  IN \A i \in DOMAIN refs :
       (refs[i].create /\ Truthy(NodeField(node, refs[i].fieldName))) =>
         \A v \in Range(NodeField(node, refs[i].fieldName).vals) :
           v # <<>> => StubsWithId(refs[i].typeName, v) # {}

(***************************************************************************)
(* C7.  In bulk ingestion, when the read of a discovered file fails, no    *)
(* node is registered for that file, createNodes fails to its caller, and  *)
(* once every unit has ended the node and the reference stubs of every     *)
(* other discovered file are registered.                                   *)
(***************************************************************************)
C7_ReadFailureIsolated ==
  (/\ pc # "start"
   /\ \A f \in DOMAIN unit : unit[f] # "reading"
   /\ \E f \in DOMAIN unit : unit[f] = "readfail")
  => /\ loadResult = "rejected"
     /\ \A f \in DOMAIN unit :
          IF unit[f] = "readfail"
            THEN NodesOf(f) = {}
            ELSE /\ Cardinality(NodesOf(f)) = 1
                 /\ StubsRegistered(fsys[f])

(***************************************************************************)
(* C8.  A read failure of one file does not abort the load: createNodes    *)
(* settles only when every unit has ended, and the load goes on to         *)
(* createSidebar.  Stated for loads in which no unit fails otherwise.      *)
(***************************************************************************)
C8_LoadSurvivesReadFailure ==
  (\A f \in DOMAIN unit : unit[f] # "threw") =>
    /\ loadResult # "pending" => \A f \in DOMAIN unit : unit[f] # "reading"
    /\ pc # "aborted"

\* the file has one node, without version and section
Degraded(f) ==
  /\ Cardinality(NodesOf(f)) = 1
  /\ \A i \in NodesOf(f) :
       Collection[i].version = Undefined /\ Collection[i].section = Undefined

(***************************************************************************)
(* C9.  A matched file whose depth is not 1 or 2 is still ingested, by     *)
(* bulk ingestion and by the add and change handlers: once it has been     *)
(* read, createNodeOptions raises nothing and a node is registered for it, *)
(* without version and section.                                            *)
(***************************************************************************)
C9_DegradedDepthIngested ==
  /\ \A f \in DOMAIN unit :
       (Depth(f) \notin {1, 2} /\ unit[f] \notin {"reading", "readfail"}
        /\ pc = "ingesting")
       => unit[f] = "done" /\ Degraded(f)
  /\ (lastEvent.event \in {"add", "change"} /\ Depth(lastEvent.file) \notin {1, 2})
       => lastEvent.hit
          /\ (lastEvent.file \in DOMAIN fsys => Degraded(lastEvent.file))

(***************************************************************************)
(* C10.  The version and section of a registered node follow from the      *)
(* depth of its file: depth 1 gives the directory as version and no        *)
(* section, depth 2 gives version and section, depth 0 gives neither; so a *)
(* node has a version only at depth 1 or 2 and a section only at depth 2.  *)
(***************************************************************************)
C10_DocInfoByDepth ==
  \A i \in DOMAIN Collection :
    IsFileNode(Collection[i]) =>
      LET n     == Collection[i]
          f     == n.fileInfo.path
          parts == Split(f, "/")
      IN /\ Depth(f) = 1 => n.version = parts[1] /\ n.section = Undefined
         /\ Depth(f) = 2 => n.version = parts[1] /\ n.section = parts[2]
         /\ Depth(f) = 0 => n.version = Undefined /\ n.section = Undefined
         /\ n.version # Undefined => Depth(f) \in {1, 2}
         /\ n.section # Undefined => Depth(f) = 2

\* the file nodes of a collection, and the stubs of every collection
FileNodeCount(st) ==
  Cardinality({i \in DOMAIN st[cfg.typeName] : IsFileNode(st[cfg.typeName][i])})

StubsOf(st) ==
  [t \in DOMAIN st |-> {st[t][i] : i \in {j \in DOMAIN st[t] : ~IsFileNode(st[t][j])}}]

\* the handler of a change event resumes for a file that has a node and
\* whose content is the content that node was made from
UnchangedChange(h) ==
  /\ h \in handlers
  /\ h.event = "change"
  /\ handlers' = handlers \ {h}
  /\ h.file \in DOMAIN fsys
  /\ \E i \in NodesOf(h.file) : Collection[i].internal.content = fsys[h.file]

(***************************************************************************)
(* C11.  A change event for an ingested file whose content has not changed *)
(* is idempotent: the record given to updateNode has the id of the file's  *)
(* node and the same path, mime type, content, version, section, fileInfo  *)
(* and origin; the number of file nodes stays and no stub is added; and a  *)
(* change applied to a node that a change already wrote leaves the whole   *)
(* graph as it is.                                                         *)
(***************************************************************************)
C11_UnchangedChangeIdempotent ==
  [][\A h \in handlers :
       UnchangedChange(h) =>
         LET rec == createNodeOptions(h.file, fsys[h.file]).node
         IN /\ \A i \in NodesOf(h.file) :
                 LET n == Collection[i]
                 IN /\ rec.id = n.id
                    /\ rec.path = n.path
                    /\ rec.internal = n.internal
                    /\ rec.version = n.version
                    /\ rec.section = n.section
                    /\ rec.fileInfo = n.fileInfo
            /\ FileNodeCount(store') = FileNodeCount(store)
            /\ StubsOf(store') = StubsOf(store)
            /\ stubCalls' = stubCalls
            /\ (\A i \in NodesOf(h.file) : Collection[i] = rec) => store' = store
    ]_vars

\* createSidebar has run: the loadSource callback is past it
SidebarBuilt == pc \in {"watching", "loaded"}

(***************************************************************************)
(* C12.  In every run the sidebar is built exactly once: the load never    *)
(* ends without createSidebar; createSidebar runs only when every unit of  *)
(* bulk ingestion has finished and before any watch event is handled; it   *)
(* is never run again, and no add, change or unlink event adds, removes or *)
(* changes a Sidebar node.                                                 *)
(***************************************************************************)
C12_SidebarBuiltOnce ==
  /\ [](pc # "aborted")
  /\ [][(~SidebarBuilt /\ SidebarBuilt') =>
          /\ \A f \in DOMAIN unit : unit[f] = "done"
          /\ handlers = {} /\ nEvents = 0 /\ lastEvent = NoEvent]_vars
  /\ [][(~SidebarBuilt /\ ~SidebarBuilt') => sidebarNodes' = sidebarNodes]_vars
  /\ [][SidebarBuilt => (SidebarBuilt' /\ sidebarNodes' = sidebarNodes)]_vars

\* the relative path createNodeOptions hashes under another configuration:
\* path.relative(context, file) resolves file against the working directory
relPathUnder(c, file) == PathRelative(c.cwd, c.context, file)

(***************************************************************************)
(* C13.  The id of a file node is a function of the file's path relative   *)
(* to the base directory and of nothing else: whatever the working         *)
(* directory and the base directory of a run are, the node of that         *)
(* relative path has the same id, in bulk ingestion, add and change.       *)
(***************************************************************************)
C13_IdFromRelativePathOnly ==
  \A i \in DOMAIN Collection :
    IsFileNode(Collection[i]) =>
      \A c \in Configs :
        Collection[i].id = createUid(relPathUnder(c, Collection[i].fileInfo.path))

(***************************************************************************)
(* The builds that exercise createPath: files whose directory and name     *)
(* need slugifying, index files, a file in the base directory, and the     *)
(* index names, pathPrefix and trailingSlash settings.                     *)
(***************************************************************************)
F_started == <<"d","o","c","s","/","v","1","/","g","e","t","t","i","n","g","-","s","t","a","r","t","e","d",".","m","d">>
F_docidx  == <<"d","o","c","s","/","v","1","/","i","n","d","e","x",".","m","d">>
F_rootidx == <<"i","n","d","e","x",".","m","d">>
F_spaced  == <<"v","1","/","G","e","t"," ","I","t",".","m","d">>
F_bang    == <<"v","1","/","!",".","m","d">>

PathFiles == {F_started, F_docidx, F_rootidx, F_spaced, F_bang}

P_docs == <<"/","d","o","c","s","/">>

PathConfigs ==
  { [BaseCfg EXCEPT !.isDev = FALSE, !.index = ix, !.pathPrefix = pp,
                    !.trailingSlash = ts] :
      ix \in {{S_index}, {}}, pp \in {Undefined, P_docs}, ts \in BOOLEAN }

InitPaths == InitWith(PathConfigs, PathFiles, {C_none}, MaxLoad)

SpecPaths == InitPaths /\ [][NextBuild]_vars

\* the node of a directory and base name
NodesAt(dir, name) ==
  {i \in DOMAIN Collection :
     /\ IsFileNode(Collection[i])
     /\ Collection[i].fileInfo.directory = dir
     /\ Collection[i].fileInfo.name = name}

\* the configuration of the example: index = ["index"], no prefix, no
\* trailing slash
ExampleCfg ==
  cfg.index = {S_index} /\ cfg.pathPrefix = Undefined /\ ~cfg.trailingSlash

(***************************************************************************)
(* C14, as amended.  With index = ["index"], no pathPrefix and no trailing *)
(* slash, directory docs/v1 with base name getting-started yields the path *)
(* /docs/v1/getting-started, and the same directory with base name index   *)
(* yields /docs/v1: every segment of the directory is part of the path.    *)
(***************************************************************************)
C14_ExampleKeepsDirectory ==
  ExampleCfg =>
    /\ \A i \in NodesAt(<<"d","o","c","s","/","v","1">>, <<"g","e","t","t","i","n","g","-","s","t","a","r","t","e","d">>) :
         Collection[i].path = <<"/","d","o","c","s","/","v","1","/","g","e","t","t","i","n","g","-","s","t","a","r","t","e","d">>
    /\ \A i \in NodesAt(<<"d","o","c","s","/","v","1">>, S_index) :
         Collection[i].path = <<"/","d","o","c","s","/","v","1">>

\* both files of the example have been ingested under its configuration
C14_Witness ==
  /\ ExampleCfg
  /\ NodesAt(<<"d","o","c","s","/","v","1">>, <<"g","e","t","t","i","n","g","-","s","t","a","r","t","e","d">>) # {}
  /\ NodesAt(<<"d","o","c","s","/","v","1">>, S_index) # {}

(***************************************************************************)
(* C14, as claimed.  With index = ["index"], no pathPrefix and no trailing *)
(* slash, directory docs/v1 with base name getting-started yields the path *)
(* /v1/getting-started, and with base name index the path /v1.             *)
(***************************************************************************)
C14_ExampleDropsBase ==
  ExampleCfg =>
    /\ \A i \in NodesAt(<<"d","o","c","s","/","v","1">>, <<"g","e","t","t","i","n","g","-","s","t","a","r","t","e","d">>) :
         Collection[i].path = <<"/","v","1","/","g","e","t","t","i","n","g","-","s","t","a","r","t","e","d">>
    /\ \A i \in NodesAt(<<"d","o","c","s","/","v","1">>, S_index) :
         Collection[i].path = <<"/","v","1">>

\* the segments the path of a node is made of: the prefix without its
\* leading and trailing slashes, the slugified segments of the directory,
\* and the slugified base name unless it is an index name; the empty ones
\* left out
PathEntries(n) ==
  LET prefix == IF cfg.pathPrefix = Undefined THEN <<>>
                ELSE TrimChar(cfg.pathPrefix, "/")
      dirs   == Split(n.fileInfo.directory, "/")
      named  == IF n.fileInfo.name \in cfg.index THEN <<>> ELSE <<n.fileInfo.name>>
      all    == <<prefix>> \o [i \in DOMAIN dirs |-> slugify(dirs[i])]
                  \o [i \in DOMAIN named |-> slugify(named[i])]
  IN FilterNonEmpty(all)

(***************************************************************************)
(* C15.  For every directory, base name, index names, pathPrefix and       *)
(* trailingSlash, createPath returns "/" followed by the non-empty entries *)
(* of [prefix, slugified directory segments, slugified base name unless it *)
(* is an index name] joined by "/", and one closing "/" when trailingSlash *)
(* is enabled; the path starts with "/", ends with exactly one "/" when    *)
(* trailingSlash is enabled, does not end with "/" when it is disabled     *)
(* unless the path is "/", and is "/" when no entry is non-empty.          *)
(***************************************************************************)
C15_PathFromSegments ==
  \A i \in DOMAIN Collection :
    IsFileNode(Collection[i]) =>
      LET n       == Collection[i]
          entries == PathEntries(n)
          joined  == <<"/">> \o Join(entries, <<"/">>)
          p       == n.path
      IN /\ p = IF cfg.trailingSlash /\ entries # <<>>
                  THEN joined \o <<"/">> ELSE joined
         /\ p # <<>> /\ p[1] = "/"
         /\ cfg.trailingSlash =>
              p[Len(p)] = "/" /\ (Len(p) > 1 => p[Len(p) - 1] # "/")
         /\ ~cfg.trailingSlash => (p[Len(p)] # "/" \/ p = <<"/">>)
         /\ entries = <<>> => p = <<"/">>

\* a build with a prefix and trailing slashes has ingested an index file, a
\* name that needs slugifying and a name whose slug is empty
C15_Witness ==
  /\ cfg.pathPrefix # Undefined
  /\ cfg.trailingSlash
  /\ cfg.index = {S_index}
  /\ \E i, j, k \in DOMAIN Collection :
       /\ Collection[i].fileInfo.name = S_index
       /\ Collection[j].fileInfo.name # slugify(Collection[j].fileInfo.name)
       /\ slugify(Collection[j].fileInfo.name) # <<>>
       /\ slugify(Collection[k].fileInfo.name) = <<>>

\* the values a front-matter field holds: the scalar, or the elements
FieldValues(fv) == Range(fv.vals)

\* the file nodes whose references have been resolved: those of the units
\* that have ended past their read, and that of the last add or change
Resolved ==
  {i \in DOMAIN Collection :
     /\ IsFileNode(Collection[i])
     /\ \/ \E f \in DOMAIN unit :
             /\ unit[f] \in {"done", "threw"}
             /\ Collection[i].internal.origin = originOf(f)
             /\ Collection[i].internal.content = fsys[f]
        \/ /\ lastEvent.event \in {"add", "change"}
           /\ lastEvent.file \in DOMAIN fsys
           /\ ~InFlight(lastEvent.file)
           /\ Collection[i].internal.origin = originOf(lastEvent.file)
           /\ Collection[i].internal.content = fsys[lastEvent.file]}

(***************************************************************************)
(* C16.  After the references of a node have been resolved, in bulk        *)
(* ingestion, add or change, every value of every declared reference field *)
(* on the node whose create flag is true has a stub {id: value, title:     *)
(* value} in the collection of the field's typeName.                       *)
(***************************************************************************)
C16_EveryValueHasStub ==
  \A i \in Resolved :
    LET refs == normalizeRefs(cfg.refs)
    IN \A r \in DOMAIN refs :
         refs[r].create =>
           \A v \in FieldValues(NodeField(Collection[i], refs[r].fieldName)) :
             \E s \in DOMAIN store[refs[r].typeName] :
               store[refs[r].typeName][s] = StubNode(v)

(***************************************************************************)
(* C17.  sortSection is a stable sort: in every section, nodes of equal    *)
(* weight, and nodes that all lack a weight, are listed in the order in    *)
(* which findNodes returned them (the order in which they were added), and *)
(* prev/next chain the nodes in the order of the items list.               *)
(***************************************************************************)
C17_TiesKeepMatchOrder ==
  pc = "loaded" =>
    \A s \in DOMAIN sidebarNodes :
      \A t \in DOMAIN sidebarNodes[s].sections :
        LET sec == sidebarNodes[s].sections[t]
            id  == sidebarNodes[s].id
            N   == SectionNodes(id, sec.title)
        IN Occurrences(sec.title, OrderOf(id)) = 1 =>
             \E p \in Listings(N) :
               /\ sec.items = [k \in DOMAIN p |-> Collection[p[k]].path]
               /\ \A i, j \in DOMAIN p :
                    (i < j /\ Weight(Collection[p[i]]) = Weight(Collection[p[j]]))
                    => p[i] < p[j]
               /\ \A k \in DOMAIN p :
                    /\ Collection[p[k]].next =
                         IF k < Len(p) THEN Collection[p[k + 1]].path ELSE Undefined
                    /\ Collection[p[k]].prev =
                         IF k > 1 THEN Collection[p[k - 1]].path ELSE Undefined

\* the set of file nodes of a store
FileNodesOf(st) ==
  {st[cfg.typeName][i] :
     i \in {j \in DOMAIN st[cfg.typeName] : IsFileNode(st[cfg.typeName][j])}}

\* one unit of bulk ingestion applied to rs = [store, cache, calls, threw],
\* whatever became of the units before it
unitOn(rs, f) ==
  LET o  == createNodeOptions(f, fsys[f])
      r0 == [rs EXCEPT !.threw = FALSE]
  IN IF o.threw THEN r0
     ELSE LET a == addNode(r0.store, cfg.typeName, o.node)
          IN IF a.threw THEN r0
             ELSE [createNodeRefs([r0 EXCEPT !.store = a.store], o.node)
                     EXCEPT !.threw = FALSE]

\* the units applied in the order p, from the state createCollections leaves
RECURSIVE unitsInOrder(_, _, _)
unitsInOrder(rs, p, k) ==
  IF k > Len(p) THEN rs ELSE unitsInOrder(unitOn(rs, p[k]), p, k + 1)

BulkResult(p) ==
  unitsInOrder([store |-> createCollections(<<>>), cache |-> {},
                calls |-> <<>>, threw |-> FALSE], p, 1)

\* every unit of bulk ingestion has ended, and every read had succeeded
BulkEnded ==
  /\ pc = "ingesting"
  /\ \A f \in DOMAIN unit : unit[f] \in {"done", "threw"}

(***************************************************************************)
(* C18.  Bulk ingestion needs no coordination among its units: whatever    *)
(* the order in which the reads complete, once every unit has ended the    *)
(* set of file nodes, the set of stubs and the dedup cache are those of    *)
(* every other order, and there is exactly one file node per discovered    *)
(* file.                                                                   *)
(***************************************************************************)
C18_BulkOrderIndependent ==
  BulkEnded =>
    /\ \A f \in DOMAIN unit : Cardinality(NodesOf(f)) = 1
    /\ \A p \in Listings(DOMAIN unit) :
         LET r == BulkResult(p)
         IN /\ FileNodesOf(r.store) = FileNodesOf(store)
            /\ StubsOf(r.store) = StubsOf(store)
            /\ r.cache = refsCache

(***************************************************************************)
(* The watcher without its guarantee: an unlink for a path is delivered    *)
(* while the add or change handler of that path is suspended at its read.  *)
(***************************************************************************)
\* watcher.on("unlink") for a file whose add or change handler is suspended
WatchUnlinkInFlight(f) ==
  /\ pc = "watching"
  /\ nEvents < MaxEvents
  /\ f \in DOMAIN fsys
  /\ InFlight(f)
  /\ fsys' = [g \in DOMAIN fsys \ {f} |-> fsys[g]]
  /\ store' = removeNode(store, cfg.typeName, unlinkAbsPath(f))
  /\ lastEvent' = [event |-> "unlink", file |-> f, hit |-> store' # store]
  /\ nEvents' = nEvents + 1
  /\ UNCHANGED <<cfg, pc, unit, loadResult, sidebarNodes, refsCache, stubCalls,
                 handlers>>

\* the read of a suspended handler returns the content c it had read before
\* the file was removed: createNodeOptions, addNode or updateNode,
\* createNodeRefs
WatchResumeRemoved(h, c) ==
  /\ h \in handlers
  /\ h.file \notin DOMAIN fsys
  /\ LET r == ingestFile(h.file, c, h.event = "change")
     IN /\ store' = r.store
        /\ refsCache' = r.cache
        /\ stubCalls' = r.calls
        /\ lastEvent' = [event |-> h.event, file |-> h.file, hit |-> ~r.threw]
  /\ handlers' = handlers \ {h}
  /\ UNCHANGED <<cfg, fsys, pc, unit, loadResult, sidebarNodes, nEvents>>

\* the read of a suspended handler fails because the file is gone: the
\* handler ends at await this.createNodeOptions
WatchResumeFailed(h) ==
  /\ h \in handlers
  /\ h.file \notin DOMAIN fsys
  /\ handlers' = handlers \ {h}
  /\ lastEvent' = [event |-> h.event, file |-> h.file, hit |-> FALSE]
  /\ UNCHANGED <<cfg, fsys, pc, unit, loadResult, store, sidebarNodes, refsCache,
                 stubCalls, nEvents>>

NextOverlap ==
  \/ NextLoad
  \/ NextWatch
  \/ \E f \in Files : WatchUnlinkInFlight(f)
  \/ \E h \in handlers, c \in Contents : WatchResumeRemoved(h, c)
  \/ \E h \in handlers : WatchResumeFailed(h)

SpecOverlap == Init /\ [][NextOverlap]_vars

(***************************************************************************)
(* C19.  Also when the events of one path overlap (an unlink for F is      *)
(* handled while an add or change handler for F is suspended at its read,  *)
(* and that read then completes), once all handlers have finished the      *)
(* collection holds no file node whose internal.origin is the removed      *)
(* file.                                                                   *)
(***************************************************************************)
C19_NoNodeOfRemovedFile ==
  (pc = "watching" /\ handlers = {}) =>
    \A f \in Files : f \notin DOMAIN fsys => NodesOf(f) = {}

====
